---- MODULE Spec2Model ----
(***************************************************************************)
(* Metrics and health monitoring of the Contextual Document Router         *)
(* (src/monitoring.py): ApplicationMetrics (the Recorder), HealthChecker   *)
(* (the Evaluator) and the arithmetic they rest on.                        *)
(***************************************************************************)
EXTENDS Integers, Sequences, FiniteSets, TLC

(***************************************************************************)
(* Python floats.  Every rate, average and percentile index of the         *)
(* Recorder is computed in IEEE-754 binary64.  A float is modelled exactly:*)
(* zero, or a sign s, a mantissa m of MantissaBits bits (most significant  *)
(* first, m[1] = 1) and the exponent e of its last bit:                    *)
(*      value = s * NatOf(m) * 2^e.                                        *)
(* Every operation rounds to nearest, ties to even, as the hardware does.  *)
(***************************************************************************)
MantissaBits == 53

Max(a, b) == IF a >= b THEN a ELSE b

Min(a, b) == IF a <= b THEN a ELSE b

Abs(a) == IF a < 0 THEN -a ELSE a

Sign(a) == IF a < 0 THEN -1 ELSE 1

Zeros(n) == [i \in 1..n |-> 0]

\* Long bit sequences are worked on LimbBits bits at a time (Radix = 2^LimbBits),
\* as a multi-precision integer is, so that no intermediate leaves 32 bits.
LimbBits == 12

Radix == 2^LimbBits

RECURSIVE BitsOf(_)
\* the binary digits of a natural number, most significant first (0 is <<>>)
BitsOf(n) == IF n = 0 THEN <<>> ELSE Append(BitsOf(n \div 2), n % 2)

RECURSIVE LimbOf(_)
\* the natural number that at most LimbBits bits denote
LimbOf(bits) ==
    IF bits = <<>> THEN 0
    ELSE 2 * LimbOf(SubSeq(bits, 1, Len(bits) - 1)) + bits[Len(bits)]

PadLeft(bits, n) == Zeros(n - Len(bits)) \o bits

StripZeros(bits) ==
    IF \A i \in 1..Len(bits) : bits[i] = 0 THEN <<>>
    ELSE LET k == CHOOSE i \in 1..Len(bits) :
                      bits[i] = 1 /\ \A j \in 1..(i - 1) : bits[j] = 0
         IN  SubSeq(bits, k, Len(bits))

RECURSIVE Limbs(_)
\* a bit sequence as limbs, least significant limb first
Limbs(bits) ==
    IF Len(bits) <= LimbBits THEN <<LimbOf(bits)>>
    ELSE <<LimbOf(SubSeq(bits, Len(bits) - LimbBits + 1, Len(bits)))>>
         \o Limbs(SubSeq(bits, 1, Len(bits) - LimbBits))

RECURSIVE FromLimbs(_)
FromLimbs(limbs) ==
    IF limbs = <<>> THEN <<>>
    ELSE FromLimbs(Tail(limbs)) \o PadLeft(BitsOf(limbs[1]), LimbBits)

RECURSIVE NatOfLimbs(_)
NatOfLimbs(limbs) ==
    IF limbs = <<>> THEN 0 ELSE limbs[1] + Radix * NatOfLimbs(Tail(limbs))

\* the natural number a bit sequence denotes (used only below 2^31)
NatOf(bits) == NatOfLimbs(Limbs(StripZeros(bits)))

RECURSIVE MulCarry(_, _, _)
\* limbs * k + carry, for a natural k < 2^16
MulCarry(limbs, k, carry) ==
    IF limbs = <<>> THEN <<carry % Radix, carry \div Radix>>
    ELSE LET v == limbs[1] * k + carry
         IN  <<v % Radix>> \o MulCarry(Tail(limbs), k, v \div Radix)

MulSmall(bits, k) == StripZeros(FromLimbs(MulCarry(Limbs(bits), k, 0)))

RECURSIVE AddCarry(_, _, _)
\* x + y + carry on two limb sequences of the same length
AddCarry(x, y, carry) ==
    IF x = <<>> THEN <<carry>>
    ELSE LET v == x[1] + y[1] + carry
         IN  <<v % Radix>> \o AddCarry(Tail(x), Tail(y), v \div Radix)

AddBits(x, y) ==
    LET n == Max(Len(x), Len(y))
    IN  StripZeros(FromLimbs(AddCarry(Limbs(PadLeft(x, n)), Limbs(PadLeft(y, n)), 0)))

\* x < y for two bit sequences of the same length
LexLess(x, y) ==
    \E i \in 1..Len(x) : x[i] < y[i] /\ \A j \in 1..(i - 1) : x[j] = y[j]

FZero == [s |-> 1, m |-> <<>>, e |-> 0]

IsZero(f) == f.m = <<>>

\* the float nearest to s * bits * 2^e (+ a little more when sticky): round to
\* nearest, ties to even
RoundBits(s, bits0, e, sticky) ==
    LET bits == StripZeros(bits0)
        n    == Len(bits)
    IN  IF n = 0 THEN FZero
        ELSE IF n <= MantissaBits
        THEN [s |-> s, m |-> bits \o Zeros(MantissaBits - n), e |-> e - (MantissaBits - n)]
        ELSE LET keep  == SubSeq(bits, 1, MantissaBits)
                 rest  == SubSeq(bits, MantissaBits + 1, n)
                 more  == sticky \/ \E i \in 2..Len(rest) : rest[i] = 1
                 up    == rest[1] = 1 /\ (more \/ keep[MantissaBits] = 1)
                 upped == AddBits(keep, <<1>>)
             IN  IF ~up THEN [s |-> s, m |-> keep, e |-> e + Len(rest)]
                 ELSE IF Len(upped) = MantissaBits + 1
                 THEN [s |-> s, m |-> SubSeq(upped, 1, MantissaBits), e |-> e + Len(rest) + 1]
                 ELSE [s |-> s, m |-> upped, e |-> e + Len(rest)]

\* float(n) for an integer n
FromInt(n) == RoundBits(Sign(n), BitsOf(Abs(n)), 0, FALSE)

RECURSIVE DivBits(_, _, _, _)
\* long division, one limb a step: the quotient of rem / b after the binary point
\* until it has two bits more than a mantissa; <<bits, places, remainder>>
DivBits(bits, places, rem, b) ==
    IF Len(bits) >= MantissaBits + 2 \/ rem = 0 THEN <<bits, places, rem>>
    ELSE LET v == rem * Radix
         IN  DivBits(StripZeros(bits \o PadLeft(BitsOf(v \div b), LimbBits)),
                     places + LimbBits, v % b, b)

\* a / b on two Python ints (true division, correctly rounded), b # 0
FDivInt(a, b) ==
    LET q == DivBits(BitsOf(Abs(a) \div Abs(b)), 0, Abs(a) % Abs(b), Abs(b))
    IN  RoundBits(Sign(a) * Sign(b), q[1], -q[2], q[3] # 0)

\* f * k for a float f and a Python int k (k converts exactly)
FMulInt(f, k) ==
    IF IsZero(f) \/ k = 0 THEN FZero
    ELSE RoundBits(f.s * Sign(k), MulSmall(f.m, Abs(k)), f.e, FALSE)

\* f + g for two floats of the same sign
FAdd(f, g) ==
    IF IsZero(f) THEN g
    ELSE IF IsZero(g) THEN f
    ELSE LET e == Min(f.e, g.e)
         IN  RoundBits(f.s, AddBits(f.m \o Zeros(f.e - e), g.m \o Zeros(g.e - e)), e, FALSE)

\* f <= g for two floats that are not negative
FLeq(f, g) ==
    \/ IsZero(f)
    \/ /\ ~IsZero(g)
       /\ \/ f.e < g.e
          \/ f.e = g.e /\ ~LexLess(g.m, f.m)

\* int(f): truncation toward zero
FTrunc(f) ==
    IF IsZero(f) \/ -f.e >= MantissaBits THEN 0
    ELSE IF f.e >= 0 THEN f.s * NatOf(f.m \o Zeros(f.e))
    ELSE f.s * NatOf(SubSeq(f.m, 1, MantissaBits + f.e))

\* format(f, ".<d>f") as the integer round(f * scale), scale = 10^d: the decimal
\* nearest to the exact binary value, ties to even
FFormat(f, scale) ==
    IF IsZero(f) THEN 0
    ELSE LET bits == MulSmall(f.m, scale)
             n    == Len(bits)
             cut  == -f.e
         IN  IF cut <= 0 THEN f.s * NatOf(bits \o Zeros(-cut))
             ELSE IF cut > n THEN 0
             ELSE LET whole == NatOf(SubSeq(bits, 1, n - cut))
                      frac  == SubSeq(bits, n - cut + 1, n)
                      more  == \E i \in 2..Len(frac) : frac[i] = 1
                      up    == frac[1] = 1 /\ (more \/ whole % 2 = 1)
                  IN  f.s * (IF up THEN whole + 1 ELSE whole)

(***************************************************************************)
(* Bounds of the model.                                                    *)
(***************************************************************************)
\* threads that call the Recorder concurrently
NumThreads == 2

\* calls that the threads of the concurrent specification start, all threads
\* together, and those of record_request, of reset and of the getters
\* (get_summary among them) among these
MaxCalls == 3

MaxRecords == 2

MaxResets == 1

MaxReads == 1

\* calls of record_request with a tag that cannot be tallied
MaxBad == 1

\* the calls of the threads of the fair specification, and those of them with
\* the empty or the second format
MaxFairCalls == 2
MaxExtra == 1

\* the caller of the collector: its calls of record_request, of export_metrics
\* and of get_prometheus_format
MaxCollectorRecords == 1
MaxExports == 2
MaxPrometheus == 1

\* the same for the single caller of the sequential specification
MaxSeqRecords == 3

MaxSeqResets == 1

MaxSeqReads == 1

\* the largest max_history a Recorder is constructed with, and the largest
\* duration recorded, in the sequential specification
MaxHistory == 2

MaxDuration == 2

\* the same in the concurrent specification
MaxSharedHistory == 1

MaxSharedDuration == 1

\* the latest reading of the wall clock; the clock counts minutes
MaxClock == 1

\* the longest text split into chunks, the largest chunk_size and overlap it
\* is split with, and the number of chunks after which the loop is cut off
MaxText == 3

MaxChunkSize == 3

MaxOverlap == 3

MaxChunks == 5

Threads == 1..NumThreads

None == "None"

\* format and intent arguments: absent, or a tag
\* a tag that is no string: a list, which is truthy and cannot be a dict key
Unhashable == "['Email']"

Hashable(x) == x # Unhashable

Formats == {None, "", "Email", "JSON"}

Intents == {None, "Complaint", Unhashable}

\* percentile arguments; the summary asks for 50, 95 and 99
Percentiles == {-150, -50, 0, 50, 95, 99, 100, 150}

\* those the threads call get_percentile with
CalledPercentiles == {-150, 50}

(***************************************************************************)
(* State.  The Recorder's fields carry their names in the source; pc, args,*)
(* tmp, acc and res are each thread's position, the arguments of its call, *)
(* its operand stack, its partly built summary and its last outcome.       *)
(***************************************************************************)
VARIABLES
    max_history, request_times, error_count, success_count, total_requests,
    requests_by_format, requests_by_intent, start_time, _lock,
    now,
    pc, args, tmp, acc, res,
    callers, budget, durations,
    appended, returned, lived, latest, reset_called,
    checks, last_check_time, results, running, outcomes, health_budget,
    file, export_pc, metrics, exported, lines, collector_budget,
    text, chunk_size, overlap, chunks, start, split_pc

recorder == <<request_times, error_count, success_count, total_requests,
              requests_by_format, requests_by_intent, start_time>>

locals == <<pc, args, tmp, acc, res>>

ghost == <<appended, returned, lived, latest, reset_called>>

\* the HealthChecker, its run in progress and what its caller may still do
evaluator == <<checks, last_check_time, results, running, outcomes, health_budget>>

\* what the callers may do: who calls, how often, with which durations
harness == <<callers, budget, durations>>

\* the MetricsCollector: the file at the path of export_metrics, the export in
\* progress, what the last export and the last get_prometheus_format gave, and
\* what the caller may still do
collector == <<file, export_pc, metrics, exported, lines, collector_budget>>

\* a call of split_text_into_chunks: its arguments, its two locals and
\* whether it is in its loop or has returned
splitter == <<text, chunk_size, overlap, chunks, start, split_pc>>

vars ==
    <<max_history, recorder, _lock, now, locals, harness, ghost, evaluator, collector,
      splitter>>

\* time.time(): a reading not before the last one (now)
Clock == now..MaxClock

\* a Python dict of counts: the keys present and the count of each
EmptyDict == [keys |-> {}, count |-> [k \in {} |-> 0]]

DictGet(d, k, default) == IF k \in d.keys THEN d.count[k] ELSE default

\* a store that leaves the dict with the one key
DictSetAlone(d, k, v) == [keys |-> {k}, count |-> [x \in {k} |-> v]]

\* d[k] = v
DictSet(d, k, v) ==
    [keys |-> d.keys \cup {k},
     count |-> [x \in d.keys \cup {k} |-> IF x = k THEN v ELSE d.count[x]]]

\* Python truthiness of an optional string argument
Truthy(x) == x # None /\ x # ""

\* the Recorder's data as one value: what a reader should see in one piece
RecorderState ==
    [request_times |-> request_times, total_requests |-> total_requests,
     success_count |-> success_count, error_count |-> error_count,
     requests_by_format |-> requests_by_format,
     requests_by_intent |-> requests_by_intent]

NoArgs == [op |-> "none"]

Idle(t) == pc[t] = "idle"

(***************************************************************************)
(* Pure computations of ApplicationMetrics.                                *)
(***************************************************************************)
\* an append that never evicts
DequeAppendNoEvict(window, x, maxlen) == Append(window, x)

\* deque(maxlen = n).append(x): a full deque drops its oldest entry
DequeAppend(window, x, maxlen) ==
    IF maxlen = 0 THEN window
    ELSE IF Len(window) >= maxlen THEN Append(Tail(window), x)
    ELSE Append(window, x)

RECURSIVE Sum(_)
Sum(seq) == IF seq = <<>> THEN 0 ELSE seq[1] + Sum(Tail(seq))

\* sorted(window): ascending
Sorted(seq) == SortSeq(seq, LAMBDA a, b : a < b)

Ok(v) == [ok |-> TRUE, value |-> v]

Raise(e) == [ok |-> FALSE, value |-> e]

\* the fraction, not the percentage
RateAsFraction(count, total) ==
    IF total = 0 THEN Raise("ZeroDivisionError") ELSE Ok(FDivInt(count, total))

\* (count / total) * 100
Rate(count, total) ==
    IF total = 0 THEN Raise("ZeroDivisionError")
    ELSE Ok(FMulInt(FDivInt(count, total), 100))

\* sum(window) / len(window)
Quotient(sum, len) ==
    IF len = 0 THEN Raise("ZeroDivisionError") ELSE Ok(FDivInt(sum, len))

\* int(len(sorted_times) * (percentile / 100))
PercentileIndex(n, percentile) == FTrunc(FMulInt(FDivInt(percentile, 100), n))

\* list[i] with Python's negative indices; the durations are floats
ListItem(list, i) ==
    IF i >= Len(list) \/ i < -Len(list) THEN Raise("IndexError")
    ELSE Ok(FromInt(list[(IF i < 0 THEN i + Len(list) ELSE i) + 1]))

\* sorted_times[min(index, len(sorted_times) - 1)]
PercentileItem(sorted_times, percentile) ==
    ListItem(sorted_times,
             Min(PercentileIndex(Len(sorted_times), percentile), Len(sorted_times) - 1))

\* a failure that is not counted
AfterTotalSkipsError(success) == IF success THEN "rec_succ_load" ELSE "rec_unlock"

\* after total_requests += 1: "if success: ... else: ..."
AfterTotal(success) == IF success THEN "rec_succ_load" ELSE "rec_err_load"

\* "if intent:"
AfterFormat(intent) == IF Truthy(intent) THEN "rec_int_load" ELSE "rec_unlock"

\* "if format:"
AfterCount(format, intent) ==
    IF Truthy(format) THEN "rec_fmt_load" ELSE AfterFormat(intent)

\* record_request without the lock
RecordMayEnterAnyway(locked) == TRUE

\* "with self._lock:" of record_request and of reset: enter when the lock is free
RecordMayEnter(locked) == ~locked

\* reset without the lock
ResetMayEnterAnyway(locked) == TRUE

ResetMayEnter(locked) == ~locked

\* the program points at which a thread is inside "with self._lock:"
CriticalSection ==
    {"rec_append", "rec_total_load", "rec_total_store", "rec_succ_load",
     "rec_succ_store", "rec_err_load", "rec_err_store", "rec_fmt_load",
     "rec_fmt_store", "rec_int_load", "rec_int_store", "rec_unlock",
     "rst_times", "rst_error", "rst_success", "rst_total", "rst_format",
     "rst_intent", "rst_start", "rst_unlock"}

InCritical(t) == pc[t] \in CriticalSection

\* get_summary evaluates its entries in the order written: the next program
\* point, by the number of entries already evaluated
SummaryPc(n) ==
    CASE n = 0 -> "sum_total"  [] n = 1 -> "sum_success" [] n = 2 -> "sum_error"
      [] n = 3 -> "sr_check"   [] n = 4 -> "er_check"    [] n = 5 -> "avg_check"
      [] n \in {6, 7, 8} -> "pct_check"
      [] n = 9 -> "up_time"    [] n = 10 -> "rpm_time"   [] n = 11 -> "sum_return"

\* get_summary's three percentile arguments
SummaryPercentile(n) == CASE n = 6 -> 50 [] n = 7 -> 95 [] n = 8 -> 99

\* the thread's getter was called by get_summary
InSummary(t) == args[t].op = "get_summary"

PercentileArg(t) ==
    IF InSummary(t) THEN SummaryPercentile(Len(acc[t])) ELSE args[t].percentile

\* the dict get_summary returns, from its entries in order; the two tallies are
\* the Recorder's own dicts, not copies
SummaryDict(a) ==
    [total_requests |-> a[1], success_count |-> a[2], error_count |-> a[3],
     success_rate |-> a[4], error_rate |-> a[5], avg_response_time |-> a[6],
     p50_response_time |-> a[7], p95_response_time |-> a[8],
     p99_response_time |-> a[9], uptime_seconds |-> a[10],
     requests_per_minute |-> a[11],
     requests_by_format |-> "self.requests_by_format",
     requests_by_intent |-> "self.requests_by_intent"]

\* what a caller reads in a summary: the tallies are read through the references
Deref(d) ==
    [d EXCEPT !.requests_by_format = requests_by_format,
              !.requests_by_intent = requests_by_intent]

Formatted(r, scale) == FFormat(r.value, scale)

\* the entries of a summary that describe the Recorder's data
DataOf(d) ==
    [total_requests |-> d.total_requests, success_count |-> d.success_count,
     error_count |-> d.error_count, success_rate |-> d.success_rate,
     error_rate |-> d.error_rate, avg_response_time |-> d.avg_response_time,
     p50_response_time |-> d.p50_response_time,
     p95_response_time |-> d.p95_response_time,
     p99_response_time |-> d.p99_response_time,
     requests_by_format |-> d.requests_by_format,
     requests_by_intent |-> d.requests_by_intent]

\* get_error_rate, get_success_rate, get_average_response_time and
\* get_percentile run without interruption on the data s
ErrorRateOf(s) ==
    IF s.total_requests = 0 THEN Ok(FZero) ELSE Rate(s.error_count, s.total_requests)

SuccessRateOf(s) ==
    IF s.total_requests = 0 THEN Ok(FZero) ELSE Rate(s.success_count, s.total_requests)

AverageOf(s) ==
    IF s.request_times = <<>> THEN Ok(FZero)
    ELSE Quotient(Sum(s.request_times), Len(s.request_times))

PercentileOf(s, percentile) ==
    IF s.request_times = <<>> THEN Ok(FZero)
    ELSE PercentileItem(Sorted(s.request_times), percentile)

\* get_requests_per_minute run without interruption, the clock reading clock
RequestsPerMinuteOf(s, started, clock) ==
    IF clock - started = 0 THEN Ok(FZero) ELSE Ok(FDivInt(s.total_requests, clock - started))

\* the data entries of get_summary run without interruption on the data s
SummaryOf(s) ==
    [total_requests |-> s.total_requests, success_count |-> s.success_count,
     error_count |-> s.error_count,
     success_rate |-> Formatted(SuccessRateOf(s), 100),
     error_rate |-> Formatted(ErrorRateOf(s), 100),
     avg_response_time |-> Formatted(AverageOf(s), 1000),
     p50_response_time |-> Formatted(PercentileOf(s, 50), 1000),
     p95_response_time |-> Formatted(PercentileOf(s, 95), 1000),
     p99_response_time |-> Formatted(PercentileOf(s, 99), 1000),
     requests_by_format |-> s.requests_by_format,
     requests_by_intent |-> s.requests_by_intent]

(***************************************************************************)
(* Construction: ApplicationMetrics(max_history), no call started.         *)
(***************************************************************************)
NoResult == [op |-> "none", ok |-> TRUE, value |-> 0]

\* res[t] is what the call of t that has just returned gave its caller; it is
\* there to be looked at until the next step of any thread
Faded == [t \in Threads |-> NoResult]

NoneReturned ==
    [success |-> 0, error |-> 0, raised |-> 0,
     format |-> [f \in Formats |-> 0], intent |-> [i \in Intents |-> 0]]

Constructed(who, calls, sizes, times) ==
    /\ max_history \in sizes
    /\ request_times = <<>>
    /\ error_count = 0
    /\ success_count = 0
    /\ total_requests = 0
    /\ requests_by_format = EmptyDict
    /\ requests_by_intent = EmptyDict
    /\ start_time = 0
    /\ _lock = FALSE
    /\ now = 0
    /\ pc = [t \in Threads |-> "idle"]
    /\ args = [t \in Threads |-> NoArgs]
    /\ tmp = [t \in Threads |-> 0]
    /\ acc = [t \in Threads |-> <<>>]
    /\ res = [t \in Threads |-> NoResult]
    /\ callers = who
    /\ budget = calls
    /\ durations = times
    /\ appended = <<>>
    /\ returned = NoneReturned
    /\ lived = [t \in Threads |-> {}]
    /\ latest = RecorderState
    /\ reset_called = FALSE

(***************************************************************************)
(* How a thread moves.                                                     *)
(***************************************************************************)
Goto(t, label) == pc' = [pc EXCEPT ![t] = label]

Load(t, v) == tmp' = [tmp EXCEPT ![t] = v]

\* the call returns, or raises, to the Recorder's caller
Done(t, result) ==
    /\ Goto(t, "idle")
    /\ res' = [Faded EXCEPT ![t] = result]
    /\ tmp' = [tmp EXCEPT ![t] = 0]
    /\ acc' = [acc EXCEPT ![t] = <<>>]
    /\ args' = [args EXCEPT ![t] = NoArgs]

\* a getter returns or raises r: to the caller, or to get_summary, which
\* formats the value to the decimals of scale
Returns(t, r, scale) ==
    IF ~r.ok \/ ~InSummary(t)
    THEN Done(t, [op |-> args[t].op, ok |-> r.ok, value |-> r.value])
    ELSE /\ acc' = [acc EXCEPT ![t] = Append(acc[t], FFormat(r.value, scale))]
         /\ Goto(t, SummaryPc(Len(acc[t]) + 1))
         /\ tmp' = [tmp EXCEPT ![t] = 0]
         /\ res' = Faded
         /\ UNCHANGED <<args>>

\* The data of the Recorder as they were between two complete calls of
\* record_request and reset: latest is the last of them, lived[t] those that the
\* get_summary of t, while in progress, has lived through.
Lived(seen, calls, last) ==
    [t \in Threads |-> IF calls[t].op = "get_summary" THEN seen[t] \cup {last} ELSE {}]

\* a call of record_request with a tag that cannot be tallied
IsBad(a) == a.op = "record_request" /\ ~Hashable(a.intent)

\* a call of record_request with the empty format or with the second format
IsExtra(a) == a.op = "record_request" /\ a.format \in {"", "JSON"}

\* a thread starts a call of one kind: "record", "reset" or "read"
Call(t, kind, a, label) ==
    /\ t \in callers
    /\ Idle(t)
    /\ budget.calls > 0
    /\ budget[kind] > 0
    /\ IsBad(a) => budget.bad > 0
    /\ IsExtra(a) => budget.extra > 0
    /\ budget' = [budget EXCEPT !.calls = @ - 1, ![kind] = @ - 1,
                                !.bad = IF IsBad(a) THEN @ - 1 ELSE @,
                                !.extra = IF IsExtra(a) THEN @ - 1 ELSE @]
    /\ args' = [args EXCEPT ![t] = a]
    /\ res' = Faded
    /\ Goto(t, label)
    /\ lived' = Lived(lived, args', latest)
    /\ UNCHANGED <<collector, evaluator, max_history, splitter, recorder, _lock, now, tmp, acc, callers, durations,
                   appended, latest>>

CallRecord(t) ==
    \E d \in durations, f \in Formats, i \in Intents, ok \in BOOLEAN :
        /\ Call(t, "record", [op |-> "record_request", duration |-> d, format |-> f,
                    intent |-> i, success |-> ok], "rec_lock")
        /\ UNCHANGED <<reset_called, returned>>

CallReset(t) ==
    /\ Call(t, "reset", [op |-> "reset"], "rst_lock")
    /\ reset_called' = TRUE
    /\ returned' = NoneReturned

CallGetter(t) ==
    /\ \/ Call(t, "read", [op |-> "get_average_response_time"], "avg_check")
       \/ \E p \in CalledPercentiles :
              Call(t, "read", [op |-> "get_percentile", percentile |-> p], "pct_check")
       \/ Call(t, "read", [op |-> "get_error_rate"], "er_check")
       \/ Call(t, "read", [op |-> "get_success_rate"], "sr_check")
       \/ Call(t, "read", [op |-> "get_requests_per_minute"], "rpm_time")
    /\ UNCHANGED <<reset_called, returned>>

CallSummary(t) ==
    /\ Call(t, "read", [op |-> "get_summary"], "sum_total")
    /\ UNCHANGED <<reset_called, returned>>

(***************************************************************************)
(* record_request(duration, format, intent, success), a bytecode at a time.*)
(***************************************************************************)
RecLock(t) ==
    /\ pc[t] = "rec_lock"
    /\ RecordMayEnter(_lock)
    /\ _lock' = TRUE
    /\ Goto(t, "rec_append")
    /\ res' = Faded
    /\ UNCHANGED <<collector, evaluator, max_history, splitter, recorder, now, args, tmp, acc, harness, ghost>>

RecAppend(t) ==
    /\ pc[t] = "rec_append"
    /\ request_times' = DequeAppend(request_times, args[t].duration, max_history)
    /\ appended' = Append(appended, args[t].duration)
    /\ Goto(t, "rec_total_load")
    /\ res' = Faded
    /\ UNCHANGED <<collector, evaluator, max_history, splitter, error_count, success_count, total_requests,
                   requests_by_format, requests_by_intent, start_time, _lock, now,
                   args, tmp, acc, harness, returned, lived, latest,
                   reset_called>>

\* "x += 1" loads x and then stores the sum
RecLoad(t) ==
    /\ \/ pc[t] = "rec_total_load" /\ Load(t, total_requests) /\ Goto(t, "rec_total_store")
       \/ pc[t] = "rec_succ_load" /\ Load(t, success_count) /\ Goto(t, "rec_succ_store")
       \/ pc[t] = "rec_err_load" /\ Load(t, error_count) /\ Goto(t, "rec_err_store")
       \/ /\ pc[t] = "rec_fmt_load"
          /\ Hashable(args[t].format)
          /\ Load(t, DictGet(requests_by_format, args[t].format, 0))
          /\ Goto(t, "rec_fmt_store")
       \/ /\ pc[t] = "rec_int_load"
          /\ Hashable(args[t].intent)
          /\ Load(t, DictGet(requests_by_intent, args[t].intent, 0))
          /\ Goto(t, "rec_int_store")
    /\ res' = Faded
    /\ UNCHANGED <<collector, evaluator, max_history, splitter, recorder, _lock, now, args, acc, harness,
                   ghost>>

RecTotalStore(t) ==
    /\ pc[t] = "rec_total_store"
    /\ total_requests' = tmp[t] + 1
    /\ Goto(t, AfterTotal(args[t].success))
    /\ Load(t, 0)
    /\ res' = Faded
    /\ UNCHANGED <<collector, evaluator, max_history, splitter, request_times, error_count, success_count,
                   requests_by_format, requests_by_intent, start_time, _lock, now,
                   args, acc, harness, ghost>>

RecSuccessStore(t) ==
    /\ pc[t] = "rec_succ_store"
    /\ success_count' = tmp[t] + 1
    /\ Goto(t, AfterCount(args[t].format, args[t].intent))
    /\ Load(t, 0)
    /\ res' = Faded
    /\ UNCHANGED <<collector, evaluator, max_history, splitter, request_times, error_count, total_requests,
                   requests_by_format, requests_by_intent, start_time, _lock, now,
                   args, acc, harness, ghost>>

RecErrorStore(t) ==
    /\ pc[t] = "rec_err_store"
    /\ error_count' = tmp[t] + 1
    /\ Goto(t, AfterCount(args[t].format, args[t].intent))
    /\ Load(t, 0)
    /\ res' = Faded
    /\ UNCHANGED <<collector, evaluator, max_history, splitter, request_times, success_count, total_requests,
                   requests_by_format, requests_by_intent, start_time, _lock, now,
                   args, acc, harness, ghost>>

RecFormatStore(t) ==
    /\ pc[t] = "rec_fmt_store"
    /\ requests_by_format' = DictSet(requests_by_format, args[t].format, tmp[t] + 1)
    /\ Goto(t, AfterFormat(args[t].intent))
    /\ Load(t, 0)
    /\ res' = Faded
    /\ UNCHANGED <<collector, evaluator, max_history, splitter, request_times, error_count, success_count,
                   total_requests, requests_by_intent, start_time, _lock, now, args,
                   acc, harness, ghost>>

RecIntentStore(t) ==
    /\ pc[t] = "rec_int_store"
    /\ requests_by_intent' = DictSet(requests_by_intent, args[t].intent, tmp[t] + 1)
    /\ Goto(t, "rec_unlock")
    /\ Load(t, 0)
    /\ res' = Faded
    /\ UNCHANGED <<collector, evaluator, max_history, splitter, request_times, error_count, success_count,
                   total_requests, requests_by_format, start_time, _lock, now, args,
                   acc, harness, ghost>>

\* the record_request calls that have returned, counted by what they carried
Counted(r, a) ==
    [success |-> r.success + (IF a.success THEN 1 ELSE 0),
     error   |-> r.error + (IF a.success THEN 0 ELSE 1),
     raised  |-> r.raised,
     format  |-> [r.format EXCEPT ![a.format] = @ + 1],
     intent  |-> [r.intent EXCEPT ![a.intent] = @ + 1]]

\* the with block ends: the lock is released and the call returns None
RecUnlock(t) ==
    /\ pc[t] = "rec_unlock"
    /\ _lock' = FALSE
    /\ Done(t, [op |-> "record_request", ok |-> TRUE, value |-> 0])
    /\ returned' = IF reset_called THEN returned ELSE Counted(returned, args[t])
    /\ latest' = RecorderState
    /\ lived' = Lived(lived, args', RecorderState)
    /\ UNCHANGED <<collector, evaluator, max_history, splitter, recorder, now, harness, appended, reset_called>>

\* an exception that leaves the lock as it was
AfterRaiseHeld(locked) == locked

\* "with self._lock:" left by an exception: __exit__ releases the lock
AfterRaise(locked) == FALSE

\* dict.get(key, 0) on a key that cannot be hashed raises TypeError: the with
\* block is left, and the exception reaches the caller of record_request
RecRaise(t) ==
    /\ \/ pc[t] = "rec_fmt_load" /\ ~Hashable(args[t].format)
       \/ pc[t] = "rec_int_load" /\ ~Hashable(args[t].intent)
    /\ _lock' = AfterRaise(_lock)
    /\ Done(t, [op |-> "record_request", ok |-> FALSE, value |-> "TypeError"])
    /\ returned' = [returned EXCEPT !.raised = @ + 1]
    /\ latest' = RecorderState
    /\ lived' = Lived(lived, args', RecorderState)
    /\ UNCHANGED <<collector, evaluator, max_history, splitter, recorder, now, harness, appended, reset_called>>

\* a dict that reset leaves as it is
ClearedNot(d) == d

\* dict.clear()
Cleared(d) == EmptyDict

(***************************************************************************)
(* reset()                                                                 *)
(***************************************************************************)
RstLock(t) ==
    /\ pc[t] = "rst_lock"
    /\ ResetMayEnter(_lock)
    /\ _lock' = TRUE
    /\ Goto(t, "rst_times")
    /\ res' = Faded
    /\ UNCHANGED <<collector, evaluator, max_history, splitter, recorder, now, args, tmp, acc, harness, ghost>>

RstClear(t) ==
    /\ \/ /\ pc[t] = "rst_times"
          /\ request_times' = <<>>
          /\ appended' = <<>>
          /\ Goto(t, "rst_error")
          /\ UNCHANGED <<error_count, success_count, total_requests,
                         requests_by_format, requests_by_intent, start_time>>
       \/ /\ pc[t] = "rst_error"
          /\ error_count' = 0
          /\ Goto(t, "rst_success")
          /\ UNCHANGED <<request_times, success_count, total_requests,
                         requests_by_format, requests_by_intent, start_time, appended>>
       \/ /\ pc[t] = "rst_success"
          /\ success_count' = 0
          /\ Goto(t, "rst_total")
          /\ UNCHANGED <<request_times, error_count, total_requests,
                         requests_by_format, requests_by_intent, start_time, appended>>
       \/ /\ pc[t] = "rst_total"
          /\ total_requests' = 0
          /\ Goto(t, "rst_format")
          /\ UNCHANGED <<request_times, error_count, success_count,
                         requests_by_format, requests_by_intent, start_time, appended>>
       \/ /\ pc[t] = "rst_format"
          /\ requests_by_format' = Cleared(requests_by_format)
          /\ Goto(t, "rst_intent")
          /\ UNCHANGED <<request_times, error_count, success_count, total_requests,
                         requests_by_intent, start_time, appended>>
       \/ /\ pc[t] = "rst_intent"
          /\ requests_by_intent' = Cleared(requests_by_intent)
          /\ Goto(t, "rst_start")
          /\ UNCHANGED <<request_times, error_count, success_count, total_requests,
                         requests_by_format, start_time, appended>>
       \/ /\ pc[t] = "rst_start"
          /\ now' \in Clock
          /\ start_time' = now'
          /\ Goto(t, "rst_unlock")
          /\ UNCHANGED <<request_times, error_count, success_count, total_requests,
                         requests_by_format, requests_by_intent, appended>>
    /\ pc[t] # "rst_start" => now' = now
    /\ res' = Faded
    /\ UNCHANGED <<collector, evaluator, max_history, splitter, _lock, args, tmp, acc, harness, returned,
                   lived, latest, reset_called>>

RstUnlock(t) ==
    /\ pc[t] = "rst_unlock"
    /\ _lock' = FALSE
    /\ Done(t, [op |-> "reset", ok |-> TRUE, value |-> 0])
    /\ latest' = RecorderState
    /\ lived' = Lived(lived, args', RecorderState)
    /\ UNCHANGED <<collector, evaluator, max_history, splitter, recorder, now, harness, appended, returned,
                   reset_called>>

(***************************************************************************)
(* The getters.  None of them takes the lock: each reads the Recorder's    *)
(* fields one at a time, and other threads run between two reads.          *)
(***************************************************************************)
ReadOnly ==
    UNCHANGED <<collector, evaluator, max_history, splitter, recorder, _lock, now, harness, ghost>>

\* a getter that reads the clock
ReadsClock ==
    /\ now' \in Clock
    /\ UNCHANGED <<collector, evaluator, max_history, splitter, recorder, _lock, harness, ghost>>

\* a step that neither returns nor loads
Jump(t, label) == Goto(t, label) /\ res' = Faded /\ UNCHANGED <<args, tmp, acc>>

\* a step that loads v and goes on
LoadAnd(t, v, label) ==
    Load(t, v) /\ Goto(t, label) /\ res' = Faded /\ UNCHANGED <<args, acc>>

\* get_average_response_time
AvgCheck(t) ==
    /\ pc[t] = "avg_check"
    /\ IF request_times = <<>> THEN Returns(t, Ok(FZero), 1000) ELSE Jump(t, "avg_sum")
    /\ ReadOnly

AvgSum(t) ==
    /\ pc[t] = "avg_sum"
    /\ LoadAnd(t, Sum(request_times), "avg_len")
    /\ ReadOnly

\* a mean over the number of requests ever counted
AvgLenByTotal(t) ==
    /\ pc[t] = "avg_len"
    /\ Returns(t, Quotient(tmp[t], total_requests), 1000)
    /\ ReadOnly

AvgLen(t) ==
    /\ pc[t] = "avg_len"
    /\ Returns(t, Quotient(tmp[t], Len(request_times)), 1000)
    /\ ReadOnly

\* get_percentile
PctCheck(t) ==
    /\ pc[t] = "pct_check"
    /\ IF request_times = <<>> THEN Returns(t, Ok(FZero), 1000) ELSE Jump(t, "pct_sorted")
    /\ ReadOnly

PctSorted(t) ==
    /\ pc[t] = "pct_sorted"
    /\ Returns(t, PercentileItem(Sorted(request_times), PercentileArg(t)), 1000)
    /\ ReadOnly

\* get_error_rate
ErCheck(t) ==
    /\ pc[t] = "er_check"
    /\ IF total_requests = 0 THEN Returns(t, Ok(FZero), 100) ELSE Jump(t, "er_load")
    /\ ReadOnly

ErLoad(t) ==
    /\ pc[t] = "er_load"
    /\ LoadAnd(t, error_count, "er_div")
    /\ ReadOnly

ErDiv(t) ==
    /\ pc[t] = "er_div"
    /\ Returns(t, Rate(tmp[t], total_requests), 100)
    /\ ReadOnly

\* get_success_rate
SrCheck(t) ==
    /\ pc[t] = "sr_check"
    /\ IF total_requests = 0 THEN Returns(t, Ok(FZero), 100) ELSE Jump(t, "sr_load")
    /\ ReadOnly

SrLoad(t) ==
    /\ pc[t] = "sr_load"
    /\ LoadAnd(t, success_count, "sr_div")
    /\ ReadOnly

SrDiv(t) ==
    /\ pc[t] = "sr_div"
    /\ Returns(t, Rate(tmp[t], total_requests), 100)
    /\ ReadOnly

\* get_uptime, called by get_summary: time.time() - self.start_time, in seconds
\* (the clock counts minutes)
UpTime(t) ==
    /\ pc[t] = "up_time"
    /\ ReadsClock
    /\ LoadAnd(t, now', "up_start")

UpStart(t) ==
    /\ pc[t] = "up_start"
    /\ acc' = [acc EXCEPT ![t] = Append(acc[t], 60 * (tmp[t] - start_time))]
    /\ Goto(t, SummaryPc(Len(acc[t]) + 1))
    /\ Load(t, 0)
    /\ res' = Faded
    /\ UNCHANGED <<args>>
    /\ ReadOnly

\* get_requests_per_minute: uptime_minutes = get_uptime() / 60, 0.0 when it is 0,
\* else total_requests / uptime_minutes
RpmTime(t) ==
    /\ pc[t] = "rpm_time"
    /\ ReadsClock
    /\ LoadAnd(t, now', "rpm_start")

RpmStart(t) ==
    /\ pc[t] = "rpm_start"
    /\ IF tmp[t] - start_time = 0 THEN Returns(t, Ok(FZero), 100)
       ELSE LoadAnd(t, tmp[t] - start_time, "rpm_total")
    /\ ReadOnly

RpmTotal(t) ==
    /\ pc[t] = "rpm_total"
    /\ Returns(t, Ok(FDivInt(total_requests, tmp[t])), 100)
    /\ ReadOnly

(***************************************************************************)
(* get_summary(): the dict display evaluates its entries from the first to *)
(* the last, the getters among them as above.                              *)
(***************************************************************************)
SumCounts(t) ==
    /\ \/ pc[t] = "sum_total" /\ acc' = [acc EXCEPT ![t] = Append(acc[t], total_requests)]
       \/ pc[t] = "sum_success" /\ acc' = [acc EXCEPT ![t] = Append(acc[t], success_count)]
       \/ pc[t] = "sum_error" /\ acc' = [acc EXCEPT ![t] = Append(acc[t], error_count)]
    /\ Goto(t, SummaryPc(Len(acc[t]) + 1))
    /\ res' = Faded
    /\ UNCHANGED <<args, tmp>>
    /\ ReadOnly

SumReturn(t) ==
    /\ pc[t] = "sum_return"
    /\ Done(t, [op |-> "get_summary", ok |-> TRUE, value |-> SummaryDict(acc[t]),
                seen |-> Deref(SummaryDict(acc[t])), lived |-> lived[t]])
    /\ lived' = [lived EXCEPT ![t] = {}]
    /\ UNCHANGED <<collector, evaluator, max_history, splitter, recorder, _lock, now, harness, appended,
                   returned, latest, reset_called>>

(***************************************************************************)
(* HealthChecker: the registry of probes and run_checks.                   *)
(***************************************************************************)
\* runs of run_checks and calls of add_check that the caller of the
\* HealthChecker makes
MaxRuns == 2

MaxAdds == 3

\* the largest reading a probe returns
MaxReading == 3

Names == {"cpu", "disk"}

\* the probes that are registered, by the gauge each one reads
Functions == {"get_cpu_usage", "get_disk_usage"}

EmptyMap == [k \in {} |-> 0]

\* threshold arguments: None, or a dict that is empty, has one bound, both,
\* both with warning above or equal to max, or neither bound
ThresholdDicts ==
    {EmptyMap, [warning |-> 1], [max |-> 2], [warning |-> 1, max |-> 2],
     [warning |-> 2, max |-> 1], [warning |-> 2, max |-> 2], [min |-> 1]}

NoThreshold == [none |-> TRUE]

Thresholds == {NoThreshold} \cup {[none |-> FALSE, dict |-> d] : d \in ThresholdDicts}

\* threshold or {}
OrEmpty(threshold) == IF threshold.none THEN EmptyMap ELSE threshold.dict

\* a probe that has not run has no value
NoValue == [none |-> TRUE]

Readings == 1..MaxReading

\* what a probe returns: a number, or a dict with some of these keys
Scalar(v) == [dict |-> FALSE, v |-> v]

Composite(fields) == [dict |-> TRUE, fields |-> fields]

Values ==
    {Scalar(v) : v \in Readings}
    \cup {Composite([percent |-> v, total |-> 8]) : v \in Readings}
    \cup {Composite([total |-> 8])}

\* one invocation of a probe: it returns a value or raises
Outcomes ==
    {[raised |-> FALSE, value |-> v] : v \in Values}
    \cup {[raised |-> TRUE, error |-> "probe failed"]}

\* value.get('percent', 0)
GetPercent(value) ==
    IF "percent" \in DOMAIN value.fields THEN value.fields.percent ELSE 0

\* a reading equal to a bound counts as over it
EvaluateStatusInclusive(value, threshold) ==
    IF DOMAIN threshold = {} THEN "healthy"
    ELSE LET v == IF value.dict THEN GetPercent(value) ELSE value.v
         IN  IF "max" \in DOMAIN threshold /\ v >= threshold.max THEN "unhealthy"
             ELSE IF "warning" \in DOMAIN threshold /\ v >= threshold.warning
             THEN "degraded"
             ELSE "healthy"

\* an evaluation that looks at the warning bound first
EvaluateStatusWarningFirst(value, threshold) ==
    IF DOMAIN threshold = {} THEN "healthy"
    ELSE LET v == IF value.dict THEN GetPercent(value) ELSE value.v
         IN  IF "warning" \in DOMAIN threshold /\ v > threshold.warning THEN "degraded"
             ELSE IF "max" \in DOMAIN threshold /\ v > threshold.max THEN "unhealthy"
             ELSE "healthy"

\* _evaluate_status(value, threshold)
EvaluateStatus(value, threshold) ==
    IF DOMAIN threshold = {} THEN "healthy"
    ELSE LET v == IF value.dict THEN GetPercent(value) ELSE value.v
         IN  IF "max" \in DOMAIN threshold /\ v > threshold.max THEN "unhealthy"
             ELSE IF "warning" \in DOMAIN threshold /\ v > threshold.warning
             THEN "degraded"
             ELSE "healthy"

\* a fold in which the last probe that is not healthy wins
FoldedLast(overall, status) ==
    IF status \in {"unhealthy", "degraded"} THEN status ELSE overall

\* the overall status after a probe that evaluated to status
Folded(overall, status) ==
    IF status = "unhealthy" THEN "unhealthy"
    ELSE IF status = "degraded" /\ overall # "unhealthy" THEN "degraded"
    ELSE overall

\* an exception that does not change the overall status
FailedUnnoticed(overall) == overall

\* "except Exception": the overall status after a probe that raised
Failed(overall) == "unhealthy"

\* results['checks'][name] after a probe that raised
ErrorResult(name, error) == [name |-> name, status |-> "error", error |-> error]

\* results['checks'][name] after a probe that returned value
ValueResult(name, status, value) == [name |-> name, status |-> status, value |-> value]

\* results after the probe check has returned or raised outcome
ProbedResults(r, check, outcome) ==
    IF outcome.raised
    THEN [r EXCEPT !.checks = Append(@, ErrorResult(check.name, outcome.error)),
                   !.overall_status = Failed(@)]
    ELSE LET status == EvaluateStatus(outcome.value, check.threshold)
         IN  [r EXCEPT !.checks = Append(@, ValueResult(check.name, status,
                                                          outcome.value)),
                       !.overall_status = Folded(@, status)]

\* a registry that forgets what it cached for a probe that raises
ProbedChecksForgetful(registry, i, outcome) ==
    IF outcome.raised
    THEN [registry EXCEPT ![i].last_status = None, ![i].last_value = NoValue]
    ELSE [registry EXCEPT
            ![i].last_status = EvaluateStatus(outcome.value, registry[i].threshold),
            ![i].last_value = outcome.value]

\* the registry after its i-th probe has returned or raised outcome: what a probe
\* returns is cached with its status
ProbedChecks(registry, i, outcome) ==
    IF outcome.raised THEN registry
    ELSE [registry EXCEPT
            ![i].last_status = EvaluateStatus(outcome.value, registry[i].threshold),
            ![i].last_value = outcome.value]

\* the place of a name in the registry, 0 when it is not registered
Place(registry, name) ==
    IF \E i \in 1..Len(registry) : registry[i].name = name
    THEN CHOOSE i \in 1..Len(registry) : registry[i].name = name
    ELSE 0

\* a registry that takes every registration as a new entry
RegisteredAgain(registry, name, function, threshold) ==
    Append(registry, [name |-> name, function |-> function,
                      threshold |-> OrEmpty(threshold),
                      last_status |-> None, last_value |-> NoValue])

\* self.checks[name] = {...}: a dict keeps the place of a key that it already has
Registered(registry, name, function, threshold) ==
    LET entry == [name |-> name, function |-> function,
                  threshold |-> OrEmpty(threshold),
                  last_status |-> None, last_value |-> NoValue]
    IN  IF Place(registry, name) = 0 THEN Append(registry, entry)
        ELSE [registry EXCEPT ![Place(registry, name)] = entry]

NoResults == [timestamp |-> None, checks |-> <<>>, overall_status |-> "none"]

HealthChecker(calls) ==
    /\ checks = <<>>
    /\ last_check_time = None
    /\ results = NoResults
    /\ running = FALSE
    /\ outcomes = <<>>
    /\ health_budget = calls

\* add_check(name, check_func, threshold)
AddCheck ==
    /\ ~running
    /\ health_budget.add > 0
    /\ \E name \in Names, function \in Functions, threshold \in Thresholds :
           checks' = Registered(checks, name, function, threshold)
    /\ health_budget' = [health_budget EXCEPT !.add = @ - 1]
    /\ UNCHANGED <<last_check_time, results, running, outcomes, collector, max_history, splitter, recorder,
                   _lock, now, locals, harness, ghost>>

\* run_checks, up to the loop: the time is read and the results are empty
RunStart ==
    /\ ~running
    /\ health_budget.run > 0
    /\ health_budget' = [health_budget EXCEPT !.run = @ - 1]
    /\ now' \in Clock
    /\ last_check_time' = now'
    /\ results' = [timestamp |-> now', checks |-> <<>>, overall_status |-> "healthy"]
    /\ running' = TRUE
    /\ outcomes' = <<>>
    /\ UNCHANGED <<checks, collector, max_history, splitter, recorder, _lock, locals, harness, ghost>>

\* one turn of the loop: the next probe is invoked; what it returns is
\* evaluated, reported and cached, what it raises is reported as an error
RunProbe ==
    /\ running
    /\ Len(results.checks) < Len(checks)
    /\ \E outcome \in Outcomes :
           /\ outcomes' = Append(outcomes, outcome)
           /\ results' = ProbedResults(results, checks[Len(results.checks) + 1], outcome)
           /\ checks' = ProbedChecks(checks, Len(results.checks) + 1, outcome)
    /\ UNCHANGED <<last_check_time, running, health_budget, collector, max_history, splitter, recorder,
                   _lock, now, locals, harness, ghost>>

\* the loop is over: run_checks returns results
RunReturn ==
    /\ running
    /\ Len(results.checks) = Len(checks)
    /\ running' = FALSE
    /\ UNCHANGED <<checks, last_check_time, results, outcomes, health_budget,
                   collector, max_history, splitter, recorder, _lock, now, locals, harness, ghost>>

(***************************************************************************)
(* MetricsCollector: one caller of collect_all_metrics, export_metrics and *)
(* get_prometheus_format on a Recorder that is between two calls.          *)
(***************************************************************************)
\* format(f, ".6f") as the integer round(f * 10^6)
FFormatMicro(f) ==
    IF IsZero(f) THEN 0
    ELSE LET bits == MulSmall(MulSmall(f.m, 1000), 1000)
             n    == Len(bits)
             cut  == -f.e
         IN  IF cut <= 0 THEN f.s * NatOf(bits \o Zeros(-cut))
             ELSE IF cut > n THEN 0
             ELSE LET whole == NatOf(SubSeq(bits, 1, n - cut))
                      frac  == SubSeq(bits, n - cut + 1, n)
                      more  == \E i \in 2..Len(frac) : frac[i] = 1
                      up    == frac[1] = 1 /\ (more \/ whole % 2 = 1)
                  IN  f.s * (IF up THEN whole + 1 ELSE whole)

\* what get_cpu_usage(), get_memory_usage() and get_disk_usage() return at one
\* moment
SystemReadings ==
    {[cpu |-> 50, memory |-> [percent |-> 50, total |-> 8],
      disk |-> [percent |-> 50, total |-> 8]],
     [cpu |-> 85, memory |-> [percent |-> 97, total |-> 8],
      disk |-> [percent |-> 50, total |-> 8]]}

\* _setup_health_checks(): the three default checks, in this order
DefaultChecks ==
    Registered(
        Registered(
            Registered(<<>>, "cpu_usage", "get_cpu_usage",
                       [none |-> FALSE, dict |-> [warning |-> 70, max |-> 90]]),
            "memory_usage", "get_memory_usage",
            [none |-> FALSE, dict |-> [warning |-> 80, max |-> 95]]),
        "disk_usage", "get_disk_usage",
        [none |-> FALSE, dict |-> [warning |-> 80, max |-> 95]])

\* the loop of run_checks from the results r on, the i-th probe giving outs[i]
RECURSIVE RunChecks(_, _, _)
RunChecks(registry, r, outs) ==
    LET i == Len(r.checks) + 1
    IN  IF i > Len(registry) THEN [checks |-> registry, results |-> r]
        ELSE RunChecks(ProbedChecks(registry, i, outs[i]),
                       ProbedResults(r, registry[i], outs[i]), outs)

\* get_summary() run without interruption, the clock reading clock
Summary(s, started, clock) ==
    Deref(SummaryDict(
        <<s.total_requests, s.success_count, s.error_count,
          Formatted(SuccessRateOf(s), 100), Formatted(ErrorRateOf(s), 100),
          Formatted(AverageOf(s), 1000), Formatted(PercentileOf(s, 50), 1000),
          Formatted(PercentileOf(s, 95), 1000), Formatted(PercentileOf(s, 99), 1000),
          60 * (clock - started),
          Formatted(RequestsPerMinuteOf(s, started, clock), 100)>>))

\* the 'system' entry of collect_all_metrics at the reading r
System(r) ==
    [cpu |-> r.cpu, memory |-> r.memory, disk |-> r.disk,
     network |-> "get_network_stats", process |-> "get_process_info"]

\* what json.dump writes for the dict m, in the order it writes it: one piece
\* for each top-level key
Dumped(m) ==
    <<[key |-> "timestamp", value |-> m.timestamp],
      [key |-> "system", value |-> m.system],
      [key |-> "application", value |-> m.application],
      [key |-> "health", value |-> m.health]>>

MetricsCollector(calls) ==
    /\ file = [exists |-> FALSE, content |-> <<>>]
    /\ export_pc = "idle"
    /\ metrics = [none |-> TRUE]
    /\ exported = [op |-> "none", ok |-> TRUE, value |-> ""]
    /\ lines = <<>>
    /\ collector_budget = calls

\* export_metrics(filepath), first statement: metrics = collect_all_metrics().
\* The caller starts it when its last call, of the collector or of the
\* Recorder, has returned. The gauges are read for the 'system' entry (r) and
\* read again by the probes of run_checks (q).
ExportCollect ==
    /\ \A t \in Threads : Idle(t)
    /\ export_pc = "idle"
    /\ collector_budget.export > 0
    /\ collector_budget' = [collector_budget EXCEPT !.export = @ - 1]
    /\ now' \in Clock
    /\ \E r, q \in SystemReadings :
           LET probes == <<[raised |-> FALSE, value |-> Scalar(q.cpu)],
                           [raised |-> FALSE, value |-> Composite(q.memory)],
                           [raised |-> FALSE, value |-> Composite(q.disk)]>>
               run == RunChecks(checks,
                                [timestamp |-> now', checks |-> <<>>,
                                 overall_status |-> "healthy"], probes)
           IN  /\ metrics' = [timestamp |-> now', system |-> System(r),
                              application |-> Summary(RecorderState, start_time, now'),
                              health |-> run.results]
               /\ checks' = run.checks
               /\ results' = run.results
               /\ outcomes' = probes
    /\ last_check_time' = now'
    /\ export_pc' = "open"
    /\ exported' = [op |-> "none", ok |-> TRUE, value |-> ""]
    /\ UNCHANGED <<file, lines, running, health_budget, max_history, splitter, recorder, _lock,
                   locals, harness, ghost>>

\* with open(filepath, 'w') as f: the file is created, or emptied when it is
\* there, or open raises OSError
ExportOpen ==
    /\ export_pc = "open"
    /\ \/ /\ file' = [exists |-> TRUE, content |-> <<>>]
          /\ export_pc' = "dump"
          /\ UNCHANGED exported
       \/ /\ exported' = [op |-> "export_metrics", ok |-> FALSE, value |-> "OSError"]
          /\ export_pc' = "idle"
          /\ UNCHANGED file
    /\ UNCHANGED <<metrics, lines, collector_budget, evaluator, max_history, splitter, recorder,
                   _lock, now, locals, harness, ghost>>

\* json.dump(metrics, f, indent=2): the next piece is written, or the write
\* raises OSError, which leaves the with block and closes the file
ExportDump ==
    /\ export_pc = "dump"
    /\ Len(file.content) < Len(Dumped(metrics))
    /\ \/ /\ file' = [file EXCEPT !.content = Append(@, Dumped(metrics)[Len(@) + 1])]
          /\ UNCHANGED <<export_pc, exported>>
       \/ /\ exported' = [op |-> "export_metrics", ok |-> FALSE, value |-> "OSError"]
          /\ export_pc' = "idle"
          /\ UNCHANGED file
    /\ UNCHANGED <<metrics, lines, collector_budget, evaluator, max_history, splitter, recorder,
                   _lock, now, locals, harness, ghost>>

\* the with block is left and the file closed: return filepath
ExportReturn ==
    /\ export_pc = "dump"
    /\ Len(file.content) = Len(Dumped(metrics))
    /\ exported' = [op |-> "export_metrics", ok |-> TRUE, value |-> "metrics.json"]
    /\ export_pc' = "idle"
    /\ UNCHANGED <<file, metrics, lines, collector_budget, evaluator, max_history, splitter,
                   recorder, _lock, now, locals, harness, ghost>>

\* a family with the TYPE line before the HELP line
FamilyTypeFirst(name, description, kind, value) ==
    <<[line |-> "# TYPE", name |-> name, text |-> kind],
      [line |-> "# HELP", name |-> name, text |-> description],
      [line |-> "sample", name |-> name, value |-> value]>>

\* the three lines appended for one metric: "# HELP name description",
\* "# TYPE name kind", "name value"
Family(name, description, kind, value) ==
    <<[line |-> "# HELP", name |-> name, text |-> description],
      [line |-> "# TYPE", name |-> name, text |-> kind],
      [line |-> "sample", name |-> name, value |-> value]>>

\* the lines of get_prometheus_format() from the summary, the average, the cpu
\* usage and the memory usage it has read
PrometheusLines(app_summary, average, cpu_usage, memory) ==
    Family("requests_total", "Total number of requests", "counter",
           app_summary.total_requests)
    \o Family("requests_success", "Total number of successful requests", "counter",
              app_summary.success_count)
    \o Family("requests_error", "Total number of failed requests", "counter",
              app_summary.error_count)
    \o Family("response_time_avg", "Average response time in seconds", "gauge",
              FFormatMicro(average))
    \o Family("cpu_usage_percent", "CPU usage percentage", "gauge", cpu_usage)
    \o Family("memory_usage_percent", "Memory usage percentage", "gauge",
              memory.percent)

\* get_prometheus_format()
PrometheusFormat ==
    /\ \A t \in Threads : Idle(t)
    /\ export_pc = "idle"
    /\ collector_budget.prometheus > 0
    /\ collector_budget' = [collector_budget EXCEPT !.prometheus = @ - 1]
    /\ now' \in Clock
    /\ \E r \in SystemReadings :
           lines' = PrometheusLines(Summary(RecorderState, start_time, now'),
                                    AverageOf(RecorderState).value,
                                    r.cpu, r.memory)
    /\ UNCHANGED <<file, export_pc, metrics, exported, evaluator, max_history, splitter,
                   recorder, _lock, locals, harness, ghost>>

\* the caller of the collector calls record_request between two calls of the
\* collector
RecordBetween(t) == export_pc = "idle" /\ CallRecord(t)

(***************************************************************************)
(* The specifications.                                                     *)
(***************************************************************************)
NoCalls == [calls |-> 0, record |-> 0, reset |-> 0, read |-> 0, bad |-> 0, extra |-> 0]

(***************************************************************************)
(* split_text_into_chunks(text, chunk_size, overlap) of utils.py.  A str   *)
(* is the sequence of its characters.                                      *)
(***************************************************************************)
Chars == {"a", "b"}

Texts == UNION {[1..n -> Chars] : n \in 0..MaxText}

\* a bound of a slice of a sequence of n items: a negative one counts from
\* the end, and both are clipped to 0..n
SliceIndex(i, n) == IF i < 0 THEN Max(n + i, 0) ELSE Min(i, n)

\* s[a:b]
Slice(s, a, b) ==
    LET lo == SliceIndex(a, Len(s))
        hi == SliceIndex(b, Len(s))
    IN  IF lo < hi THEN SubSeq(s, lo + 1, hi) ELSE <<>>

\* the start of the next chunk
NextStart(end) == end - overlap

\* no call of split_text_into_chunks
NotSplitting ==
    /\ text = <<>>
    /\ chunk_size = 1
    /\ overlap = 0
    /\ chunks = <<>>
    /\ start = 0
    /\ split_pc = "idle"

\* the call, at the test of its loop: chunks = [], start = 0
SplitCalled ==
    /\ text \in Texts
    /\ chunk_size \in 1..MaxChunkSize
    /\ overlap \in 0..MaxOverlap
    /\ chunks = <<>>
    /\ start = 0
    /\ split_pc = "while"

\* one turn of the loop
SplitLoop ==
    /\ split_pc = "while"
    /\ start < Len(text)
    /\ Len(chunks) < MaxChunks
    /\ LET end == start + chunk_size
       IN  /\ chunks' = Append(chunks, Slice(text, start, end))
           /\ start' = NextStart(end)
    /\ UNCHANGED <<text, chunk_size, overlap, split_pc>>
    /\ UNCHANGED <<max_history, recorder, _lock, now, locals, harness, ghost,
                   evaluator, collector>>

\* the loop is left: return chunks
SplitReturn ==
    /\ split_pc = "while"
    /\ ~(start < Len(text))
    /\ split_pc' = "returned"
    /\ UNCHANGED <<text, chunk_size, overlap, chunks, start>>
    /\ UNCHANGED <<max_history, recorder, _lock, now, locals, harness, ghost,
                   evaluator, collector>>

\* every thread calls the Recorder
Init ==
    /\ Constructed(Threads,
                [calls |-> MaxCalls, record |-> MaxRecords, reset |-> MaxResets,
                 read |-> MaxReads, bad |-> MaxBad, extra |-> 0],
                1..MaxSharedHistory, 1..MaxSharedDuration)
    /\ HealthChecker([add |-> 0, run |-> 0])
    /\ MetricsCollector([export |-> 0, prometheus |-> 0])
    /\ NotSplitting

\* one thread calls the Recorder: each call ends before the next starts
InitSeq ==
    /\ Constructed({1},
                [calls |-> MaxSeqRecords + MaxSeqResets + MaxSeqReads,
                 record |-> MaxSeqRecords, reset |-> MaxSeqResets, read |-> MaxSeqReads,
                 bad |-> MaxBad, extra |-> 0],
                1..MaxHistory, 1..MaxDuration)
    /\ HealthChecker([add |-> 0, run |-> 0])
    /\ MetricsCollector([export |-> 0, prometheus |-> 0])
    /\ NotSplitting

\* the HealthChecker alone, with one caller
InitHealth ==
    /\ Constructed({}, NoCalls, {1}, {1})
    /\ HealthChecker([add |-> MaxAdds, run |-> MaxRuns])
    /\ MetricsCollector([export |-> 0, prometheus |-> 0])
    /\ NotSplitting

Next ==
    \E t \in Threads :
        \/ CallRecord(t) \/ CallReset(t) \/ CallGetter(t) \/ CallSummary(t)
        \/ RecLock(t) \/ RecAppend(t) \/ RecLoad(t) \/ RecTotalStore(t)
        \/ RecSuccessStore(t) \/ RecErrorStore(t) \/ RecFormatStore(t)
        \/ RecIntentStore(t) \/ RecUnlock(t) \/ RecRaise(t)
        \/ RstLock(t) \/ RstClear(t) \/ RstUnlock(t)
        \/ AvgCheck(t) \/ AvgSum(t) \/ AvgLen(t) \/ PctCheck(t) \/ PctSorted(t)
        \/ ErCheck(t) \/ ErLoad(t) \/ ErDiv(t) \/ SrCheck(t) \/ SrLoad(t) \/ SrDiv(t)
        \/ UpTime(t) \/ UpStart(t) \/ RpmTime(t) \/ RpmStart(t) \/ RpmTotal(t)
        \/ SumCounts(t) \/ SumReturn(t)

\* MetricsCollector(): its Recorder, its HealthChecker with the default checks,
\* and one caller
InitCollector ==
    /\ Constructed({1},
                [calls |-> MaxCollectorRecords, record |-> MaxCollectorRecords,
                 reset |-> 0, read |-> 0, bad |-> MaxBad, extra |-> 0],
                1..MaxSharedHistory, 1..MaxSharedDuration)
    /\ checks = DefaultChecks
    /\ last_check_time = None
    /\ results = NoResults
    /\ running = FALSE
    /\ outcomes = <<>>
    /\ health_budget = [add |-> 0, run |-> 0]
    /\ MetricsCollector([export |-> MaxExports, prometheus |-> MaxPrometheus])
    /\ NotSplitting

\* two threads that call the Recorder concurrently, a few calls in all, with
\* two formats
InitFair ==
    /\ Constructed(Threads,
                [calls |-> MaxFairCalls, record |-> MaxFairCalls, reset |-> MaxResets,
                 read |-> MaxReads, bad |-> MaxBad, extra |-> MaxExtra],
                1..MaxSharedHistory, 1..MaxSharedDuration)
    /\ HealthChecker([add |-> 0, run |-> 0])
    /\ MetricsCollector([export |-> 0, prometheus |-> 0])
    /\ NotSplitting

NextCollector ==
    \/ \E t \in Threads :
           \/ RecordBetween(t) \/ RecLock(t) \/ RecAppend(t) \/ RecLoad(t)
           \/ RecTotalStore(t) \/ RecSuccessStore(t) \/ RecErrorStore(t)
           \/ RecFormatStore(t) \/ RecIntentStore(t) \/ RecUnlock(t) \/ RecRaise(t)
    \/ ExportCollect \/ ExportOpen \/ ExportDump \/ ExportReturn
    \/ PrometheusFormat

NextHealth == AddCheck \/ RunStart \/ RunProbe \/ RunReturn

\* threads that call the Recorder concurrently
Spec == Init /\ [][Next]_vars

\* one caller: every call runs to its end before the next
SeqSpec == InitSeq /\ [][Next]_vars

\* add_check and run_checks, one call at a time
HealthSpec == InitHealth /\ [][NextHealth]_vars

\* a step of thread t inside a call, but for the steps that compute a float
Progress(t) ==
    \/ RecLock(t) \/ RecAppend(t) \/ RecLoad(t) \/ RecTotalStore(t)
    \/ RecSuccessStore(t) \/ RecErrorStore(t) \/ RecFormatStore(t)
    \/ RecIntentStore(t) \/ RecUnlock(t) \/ RecRaise(t)
    \/ RstLock(t) \/ RstClear(t) \/ RstUnlock(t)
    \/ AvgCheck(t) \/ AvgSum(t) \/ PctCheck(t)
    \/ ErCheck(t) \/ ErLoad(t) \/ SrCheck(t) \/ SrLoad(t)
    \/ UpTime(t) \/ UpStart(t) \/ RpmTime(t) \/ RpmStart(t)
    \/ SumCounts(t) \/ SumReturn(t)

\* the program points of the getters at which a float is computed: the steps
\* AvgLen, PctSorted, ErDiv, SrDiv and RpmTotal, which have no other condition
\* than the program point
ComputePoints == {"avg_len", "pct_sorted", "er_div", "sr_div", "rpm_total"}

\* thread t takes one of these steps: it returns, or goes on to the next entry
\* of get_summary
Computes(t) ==
    /\ pc[t] \in ComputePoints
    /\ \E l \in {"idle"} \cup {SummaryPc(n) : n \in 0..11} : pc' = [pc EXCEPT ![t] = l]

\* the interpreter schedules every thread that can run again and again, and a
\* thread that waits for the lock gets it when it is free again and again
FairSpec ==
    /\ InitFair
    /\ [][Next]_vars
    /\ \A t \in Threads : SF_vars(Progress(t)) /\ WF_pc(Computes(t))

\* one caller of the collector and of its Recorder
CollectorSpec == InitCollector /\ [][NextCollector]_vars

\* a call of split_text_into_chunks, nothing else running
InitChunk ==
    /\ Constructed({}, NoCalls, {1}, {1})
    /\ HealthChecker([add |-> 0, run |-> 0])
    /\ MetricsCollector([export |-> 0, prometheus |-> 0])
    /\ SplitCalled

NextChunk == SplitLoop \/ SplitReturn

ChunkSpec == InitChunk /\ [][NextChunk]_vars

(***************************************************************************)
(* Properties of the Recorder.                                             *)
(***************************************************************************)
AllIdle == \A t \in Threads : Idle(t)

NoneInCritical == \A t \in Threads : ~InCritical(t)

Tags(T) == {x \in T : Truthy(x)}

\* C1: no update is lost under concurrent record_request: with no reset, once
\* every call has returned (none has raised), total_requests is the number of calls, success_count
\* and error_count the numbers of calls with success true and false, and every
\* format and intent tally the number of calls that carried that tag
C1_NoLostUpdate ==
    (AllIdle /\ ~reset_called /\ returned.raised = 0) =>
        /\ total_requests = returned.success + returned.error
        /\ success_count = returned.success
        /\ error_count = returned.error
        /\ \A f \in Tags(Formats) : DictGet(requests_by_format, f, 0) = returned.format[f]
        /\ \A i \in Tags(Intents) : DictGet(requests_by_intent, i, 0) = returned.intent[i]
        /\ requests_by_format.keys = {f \in Tags(Formats) : returned.format[f] > 0}
        /\ requests_by_intent.keys = {i \in Tags(Intents) : returned.intent[i] > 0}

\* two calls by two threads have returned, one a failure, both tagged
C1_Witness ==
    /\ AllIdle
    /\ ~reset_called
    /\ budget.record = 0
    /\ returned.success = 1
    /\ returned.error = 1
    /\ returned.format["Email"] = 2
    /\ total_requests = 2

\* C2 as claimed: every summary that get_summary returns is the summary of the
\* data as they were between two complete calls of record_request and reset
C2_SummaryIsPointInTime ==
    \A t \in Threads :
        (res[t].op = "get_summary" /\ res[t].ok) =>
            DataOf(res[t].seen) \in {SummaryOf(s) : s \in res[t].lived}

\* C3: after every completed record_request or reset, that is whenever no call
\* is inside its critical section, success_count + error_count = total_requests
C3_CounterInvariant ==
    NoneInCritical => success_count + error_count = total_requests

\* a success and a failure have been recorded and no call is under way
C3_Witness ==
    /\ AllIdle
    /\ success_count = 1
    /\ error_count = 1
    /\ total_requests = 2

\* C4: the window never holds more than max_history entries, and once more than
\* max_history durations have been recorded it holds the last max_history of
\* them in the order of the calls
C4_WindowBound ==
    /\ Len(request_times) <= max_history
    /\ Len(appended) > max_history =>
           request_times = SubSeq(appended, Len(appended) - max_history + 1, Len(appended))

\* three durations recorded into a window of two: the first was evicted
C4_Witness ==
    /\ max_history = 2
    /\ ~reset_called
    /\ appended = <<1, 2, 1>>
    /\ request_times = <<2, 1>>
    /\ AllIdle

\* a step that changes the window, a counter or a tally
Mutates ==
    <<request_times, error_count, success_count, total_requests, requests_by_format,
      requests_by_intent>>' #
    <<request_times, error_count, success_count, total_requests, requests_by_format,
      requests_by_intent>>

\* C5: the window, the counters and the tallies change only while the lock is
\* held, and no two critical sections of record_request and reset are ever
\* under way at once
C5_MutualExclusion ==
    /\ [](\A t, u \in Threads : (InCritical(t) /\ InCritical(u)) => t = u)
    /\ []((\E t \in Threads : InCritical(t)) => _lock)
    /\ [][Mutates => (_lock /\ \E t \in Threads : InCritical(t) /\ pc'[t] # pc[t])]_vars

\* one thread is inside record_request's critical section while the other waits
\* to enter reset's
C5_Witness ==
    \E t, u \in Threads :
        /\ pc[t] = "rec_total_store"
        /\ pc[u] = "rst_lock"
        /\ _lock

\* the program points at which get_average_response_time and get_percentile
\* read request_times
WindowReads == {"avg_check", "avg_sum", "avg_len", "pct_check", "pct_sorted"}

\* C6 as claimed: no read of the window by get_average_response_time or
\* get_percentile overlaps a critical section of record_request or reset in
\* another thread
C6_NoLockFreeWindowRead ==
    [][\A t \in Threads :
         (pc[t] \in WindowReads /\ pc'[t] # pc[t]) =>
             \A u \in Threads \ {t} : ~InCritical(u)]_vars

Ones(n) == [i \in 1..n |-> 1]

\* 100.0, and the two floats next below and the two next above it: the floats
\* within 2^-45 of 100
Hundred == FromInt(100)

NearHundred ==
    {Hundred,
     [s |-> 1, m |-> BitsOf(99) \o Ones(MantissaBits - 7), e |-> 7 - MantissaBits],
     [s |-> 1, m |-> BitsOf(99) \o Ones(MantissaBits - 8) \o <<0>>, e |-> 7 - MantissaBits],
     [s |-> 1, m |-> BitsOf(100) \o Zeros(MantissaBits - 8) \o <<1>>, e |-> 7 - MantissaBits],
     [s |-> 1, m |-> BitsOf(100) \o Zeros(MantissaBits - 9) \o <<1, 0>>,
      e |-> 7 - MantissaBits]}

Percentage(r) == r.ok /\ r.value.s = 1 /\ FLeq(r.value, Hundred)

\* C7 as claimed: after any sequence of completed calls, get_error_rate() and
\* get_success_rate() lie in [0, 100] and, when total_requests > 0, their sum
\* is 100
C7_RatesSumToHundred ==
    NoneInCritical =>
        /\ Percentage(ErrorRateOf(RecorderState))
        /\ Percentage(SuccessRateOf(RecorderState))
        /\ total_requests > 0 =>
               FAdd(ErrorRateOf(RecorderState).value,
                    SuccessRateOf(RecorderState).value) = Hundred

\* C7, amended: after any sequence of completed calls, get_error_rate() and
\* get_success_rate() lie in [0, 100] and, when total_requests > 0, their sum
\* differs from 100 by at most 2^-45 (two units in the last place of 100.0)
C7_RatesSumNearHundred ==
    NoneInCritical =>
        /\ Percentage(ErrorRateOf(RecorderState))
        /\ Percentage(SuccessRateOf(RecorderState))
        /\ total_requests > 0 =>
               FAdd(ErrorRateOf(RecorderState).value,
                    SuccessRateOf(RecorderState).value) \in NearHundred

\* one failure in three calls: neither rate is exact in binary
C7_Witness ==
    /\ AllIdle
    /\ total_requests = 3
    /\ error_count = 1
    /\ success_count = 2

GuardedGetters ==
    {"get_error_rate", "get_success_rate", "get_average_response_time", "get_percentile"}

\* a call of a guarded getter, get_percentile with p in 0..100
GuardedCall(a) ==
    /\ a.op \in GuardedGetters
    /\ a.op = "get_percentile" => a.percentile \in 0..100

\* C8 as claimed: no call of get_error_rate, get_success_rate,
\* get_average_response_time or get_percentile raises, whatever record_request
\* or reset of another thread runs between its steps
C8_GettersNeverRaise ==
    [][\A t \in Threads :
         (GuardedCall(args[t]) /\ pc'[t] = "idle") => res'[t].ok]_vars

\* C9 as claimed: for all integers p1 < p2, get_percentile(p1) <=
\* get_percentile(p2) on the same window
C9_PercentileMonotone ==
    NoneInCritical =>
        \A p1, p2 \in Percentiles :
            (/\ p1 < p2
             /\ PercentileOf(RecorderState, p1).ok
             /\ PercentileOf(RecorderState, p2).ok) =>
                FLeq(PercentileOf(RecorderState, p1).value,
                     PercentileOf(RecorderState, p2).value)

(***************************************************************************)
(* Properties of the HealthChecker.                                        *)
(***************************************************************************)
Severity(status) ==
    CASE status = "healthy" -> 0
      [] status = "degraded" -> 1
      [] status \in {"unhealthy", "error"} -> 2

\* the most severe status of the probes reported in r: healthy when there is none
MostSevere(r) ==
    IF \E i \in 1..Len(r) : Severity(r[i].status) = 2 THEN "unhealthy"
    ELSE IF \E i \in 1..Len(r) : Severity(r[i].status) = 1 THEN "degraded"
    ELSE "healthy"

\* run_checks has returned
Returned == ~running /\ results.overall_status # "none"

\* C10: the overall status that run_checks returns is the most severe of the
\* statuses it reports for the registered probes, with error = unhealthy >
\* degraded > healthy; it is healthy when no probe is registered
C10_StatusFolding ==
    Returned => results.overall_status = MostSevere(results.checks)

\* an unhealthy probe, then a degraded one: the run is unhealthy
C10_Witness ==
    /\ Returned
    /\ Len(results.checks) = 2
    /\ results.checks[1].status = "unhealthy"
    /\ results.checks[2].status = "degraded"
    /\ results.overall_status = "unhealthy"

\* run_checks has gone through the registry and is about to return results
Returning == running /\ Len(results.checks) = Len(checks)

\* C11: when a probe raises during run_checks, the run still goes through the
\* whole registry and returns: the probe that raised is reported as status
\* error with its message, every other probe is invoked and reported in the
\* same run, and the overall status is unhealthy
C11_ProbeIsolation ==
    /\ running => Len(outcomes) = Len(results.checks) /\ Len(outcomes) <= Len(checks)
    /\ Returning =>
           /\ \A i \in 1..Len(checks) :
                  /\ results.checks[i].name = checks[i].name
                  /\ outcomes[i].raised =>
                         results.checks[i] = ErrorResult(checks[i].name, outcomes[i].error)
                  /\ ~outcomes[i].raised =>
                         /\ results.checks[i].status # "error"
                         /\ results.checks[i].value = outcomes[i].value
           /\ (\E i \in 1..Len(checks) : outcomes[i].raised) =>
                  results.overall_status = "unhealthy"

\* the first of two probes raised, the second returned a healthy reading
C11_Witness ==
    /\ Returning
    /\ Len(checks) = 2
    /\ outcomes[1].raised
    /\ ~outcomes[2].raised
    /\ results.checks[2].status = "healthy"

\* the scalar that _evaluate_status compares: the value itself, or the percent
\* field of a composite value, 0 when it has none
ScalarOf(value) ==
    IF ~value.dict THEN value.v
    ELSE IF "percent" \in DOMAIN value.fields THEN value.fields.percent
    ELSE 0

Over(threshold, bound, s) == bound \in DOMAIN threshold /\ s > threshold[bound]

\* the classification of a value under a threshold
Classified(value, threshold) ==
    IF Over(threshold, "max", ScalarOf(value)) THEN "unhealthy"
    ELSE IF Over(threshold, "warning", ScalarOf(value)) THEN "degraded"
    ELSE "healthy"

\* C12: the status run_checks reports for a probe that returned a value is
\* unhealthy if the threshold has max and the scalar is above it, else degraded
\* if it has warning and the scalar is above it, else healthy; a value equal to
\* a bound is not above it, and a threshold with neither bound gives healthy
C12_Classification ==
    \A i \in 1..Len(results.checks) :
        (running /\ ~outcomes[i].raised) =>
            results.checks[i].status = Classified(outcomes[i].value, checks[i].threshold)

\* a reading equal to max and above warning is degraded; a composite value
\* without percent is healthy under the same threshold
C12_Witness ==
    /\ Returning
    /\ Len(checks) = 2
    /\ checks[1].threshold = [warning |-> 1, max |-> 2]
    /\ checks[2].threshold = [warning |-> 1, max |-> 2]
    /\ ~outcomes[1].raised /\ outcomes[1].value = Scalar(2)
    /\ ~outcomes[2].raised /\ outcomes[2].value = Composite([total |-> 8])
    /\ results.checks[1].status = "degraded"
    /\ results.checks[2].status = "healthy"

(***************************************************************************)
(* More properties of the Recorder.                                        *)
(***************************************************************************)
\* no call of record_request has been made since construction
Fresh == AllIdle /\ ~reset_called /\ appended = <<>> /\ returned = NoneReturned

\* reset has just returned
JustReset == \E t \in Threads : res[t].op = "reset"

\* C16: a new Recorder, and a Recorder whose reset has just returned after any
\* sequence of record_request calls, has an empty window, zero counters and no
\* tally keys, and its average, every percentile, both rates and the requests
\* per minute are 0
C16_ZeroState ==
    (Fresh \/ JustReset) =>
        /\ request_times = <<>>
        /\ total_requests = 0 /\ success_count = 0 /\ error_count = 0
        /\ requests_by_format.keys = {} /\ requests_by_intent.keys = {}
        /\ AverageOf(RecorderState) = Ok(FZero)
        /\ \A p \in Percentiles : PercentileOf(RecorderState, p) = Ok(FZero)
        /\ ErrorRateOf(RecorderState) = Ok(FZero)
        /\ SuccessRateOf(RecorderState) = Ok(FZero)
        /\ \A c \in Clock : RequestsPerMinuteOf(RecorderState, start_time, c) = Ok(FZero)

\* reset has just returned after two calls of record_request, and the clock
\* has gone on since
C16_Witness ==
    /\ JustReset
    /\ budget.record <= MaxSeqRecords - 2
    /\ latest.total_requests = 0
    /\ \E c \in Clock : c > start_time

\* C17: whenever a call of record_request or reset has ended, by return or by
\* an exception raised inside the with block, the lock is free: the lock is
\* held only while some call is inside its critical section
C17_LockReleased == _lock => \E t \in Threads : InCritical(t)

\* record_request has just raised on its intent tag and the lock is free
C17_Witness ==
    \E t \in Threads :
        /\ res[t].op = "record_request"
        /\ ~res[t].ok
        /\ ~_lock
        /\ AllIdle

\* C18 as claimed: a call of record_request that ends with an exception leaves
\* the window, the counters and both tallies as they were before the call
C18_AllOrNothing ==
    [][\A t \in Threads :
         (args[t].op = "record_request" /\ pc'[t] = "idle" /\ ~res'[t].ok) =>
             RecorderState' = latest]_vars

\* floor(n * p / 100) clamped to [0, n - 1]
ClampedIndex(n, p) == Max(0, Min((n * p) \div 100, n - 1))

\* C19 as claimed: for a window of n > 0 entries and every integer p,
\* get_percentile(p) is the entry of the sorted window at index
\* floor(n * p / 100) clamped to [0, n - 1]; for an empty window it is 0
C19_PercentileIndex ==
    NoneInCritical =>
        \A p \in Percentiles :
            PercentileOf(RecorderState, p) =
                IF request_times = <<>> THEN Ok(FZero)
                ELSE Ok(FromInt(Sorted(request_times)[
                         ClampedIndex(Len(request_times), p) + 1]))

\* the durations recorded since the last reset that a window of n keeps
Kept(all, n) == SubSeq(all, Max(1, Len(all) - n + 1), Len(all))

\* C20: get_average_response_time() is the arithmetic mean of the durations
\* now in the window, the last max_history recorded; evicted durations and the
\* counters do not enter; it is 0 when the window is empty
C20_AverageOfWindow ==
    \A t \in Threads :
        res[t].op = "get_average_response_time" =>
            res[t] = [op |-> "get_average_response_time", ok |-> TRUE,
                      value |-> IF appended = <<>> THEN FZero
                                ELSE FDivInt(Sum(Kept(appended, max_history)),
                                             Len(Kept(appended, max_history)))]

\* the average of a window of two after durations 1, 2, 2: 2.0, not 5/3
C20_Witness ==
    /\ max_history = 2
    /\ appended = <<1, 2, 2>>
    /\ total_requests = 3
    /\ res[1].op = "get_average_response_time"
    /\ res[1].value = FromInt(2)

\* the summary as its holder reads it after the step: the tallies are read
\* through the references
DerefNext(d) ==
    [d EXCEPT !.requests_by_format = requests_by_format',
              !.requests_by_intent = requests_by_intent']

\* C13 as claimed: no later operation changes a summary that get_summary has
\* returned
C13_SnapshotImmutable ==
    [][\A t \in Threads :
         (res[t].op = "get_summary" /\ res[t].ok) =>
             DerefNext(res[t].value) = res[t].seen]_vars


(***************************************************************************)
(* Properties of the MetricsCollector.                                     *)
(***************************************************************************)
TopLevelKeys == <<"timestamp", "system", "application", "health">>

\* the file holds a whole snapshot: every top-level key with its value
Complete(f) == [i \in 1..Len(f.content) |-> f.content[i].key] = TopLevelKeys

\* C14: export_metrics writes the file at its path atomically: at every
\* instant, and after any failure during the export, the file is absent or
\* holds a complete snapshot (the previous one or the new one), never an empty
\* or partly written one
C14_AtomicExport == file.exists => Complete(file)

FamilyNames ==
    <<"requests_total", "requests_success", "requests_error", "response_time_avg",
      "cpu_usage_percent", "memory_usage_percent">>

FamilyKinds == <<"counter", "counter", "counter", "gauge", "gauge", "gauge">>

\* C15: get_prometheus_format emits, in every state of the Recorder, exactly
\* six families in the order requests_total, requests_success, requests_error,
\* response_time_avg, cpu_usage_percent, memory_usage_percent, each as three
\* consecutive lines "# HELP name ...", "# TYPE name kind", "name value", the
\* kind being counter for the three request metrics and gauge for the others
C15_StableLayout ==
    lines # <<>> =>
        /\ Len(lines) = 3 * Len(FamilyNames)
        /\ \A i \in 1..Len(FamilyNames) :
               /\ lines[3 * i - 2].line = "# HELP"
               /\ lines[3 * i - 2].name = FamilyNames[i]
               /\ lines[3 * i - 1].line = "# TYPE"
               /\ lines[3 * i - 1].name = FamilyNames[i]
               /\ lines[3 * i - 1].text = FamilyKinds[i]
               /\ lines[3 * i].line = "sample"
               /\ lines[3 * i].name = FamilyNames[i]
               /\ lines[3 * i].value \in Nat

\* get_prometheus_format has returned the lines of a Recorder that has counted
\* a failed request
C15_Witness ==
    /\ lines # <<>>
    /\ total_requests = 1
    /\ lines[3].value = 1
    /\ lines[9].value = 1
    /\ lines[12].value > 0


(***************************************************************************)
(* Further properties of the Recorder.                                     *)
(***************************************************************************)
\* the program points of record_request after "self.total_requests += 1"
PastTotal ==
    {"rec_succ_load", "rec_succ_store", "rec_err_load", "rec_err_store",
     "rec_fmt_load", "rec_fmt_store", "rec_int_load", "rec_int_store", "rec_unlock"}

\* the program points at which reset assigns a counter
ResetPoints == {"rst_error", "rst_success", "rst_total"}

\* a step of a reset that assigns a counter
ResetStep == \E t \in Threads : pc[t] \in ResetPoints /\ pc'[t] # pc[t]

\* the counters do not go down
CountersGrow ==
    /\ total_requests' >= total_requests
    /\ success_count' >= success_count
    /\ error_count' >= error_count

\* C21: the cumulative counters are monotone: a step that is not of a reset
\* never lowers total_requests, success_count or error_count, and, until a
\* reset, total_requests is the number of record_request calls that have got
\* past "total_requests += 1" (each call has raised it by exactly 1, whether or
\* not the window has evicted an entry)
C21_MonotoneCounters ==
    /\ [][~ResetStep => CountersGrow]_vars
    /\ [](~reset_called =>
            total_requests = returned.success + returned.error + returned.raised
                             + Cardinality({t \in Threads : pc[t] \in PastTotal}))

\* two calls of record_request have returned, the window holds one entry: the
\* second call has evicted the first duration, and total_requests is 2
C21_Witness ==
    /\ AllIdle
    /\ ~reset_called
    /\ returned.success + returned.error = 2
    /\ Len(request_times) < Len(appended)
    /\ total_requests = 2


\* the program points of record_request after the format tally, and after the
\* intent tally
PastFormat == {"rec_int_load", "rec_int_store", "rec_unlock"}

PastIntent == {"rec_unlock"}

\* the dict after is the dict before with the count of tag raised by 1, the key
\* created when it was not there, and every other key as it was
TagCounted(before, after, tag) ==
    /\ after.keys = before.keys \cup {tag}
    /\ after.count[tag] = (IF tag \in before.keys THEN before.count[tag] ELSE 0) + 1
    /\ \A k \in before.keys \ {tag} : after.count[k] = before.count[k]

\* a tally changes only when reset clears it or when a record_request that
\* carries a tag counts that tag
TallySteps ==
    /\ \/ requests_by_format' = requests_by_format
       \/ \E t \in Threads : pc[t] = "rst_format" /\ pc'[t] # pc[t]
       \/ \E t \in Threads :
             /\ pc[t] = "rec_fmt_store" /\ pc'[t] # pc[t]
             /\ Truthy(args[t].format)
             /\ TagCounted(requests_by_format, requests_by_format', args[t].format)
    /\ \/ requests_by_intent' = requests_by_intent
       \/ \E t \in Threads : pc[t] = "rst_intent" /\ pc'[t] # pc[t]
       \/ \E t \in Threads :
             /\ pc[t] = "rec_int_store" /\ pc'[t] # pc[t]
             /\ Truthy(args[t].intent)
             /\ TagCounted(requests_by_intent, requests_by_intent', args[t].intent)

\* the record_request calls with the tag in the dimension that have counted it:
\* those that have returned and those past the tally
CarriedFormat(f) ==
    returned.format[f]
    + Cardinality({t \in Threads : pc[t] \in PastFormat /\ args[t].format = f})

CarriedIntent(i) ==
    returned.intent[i]
    + Cardinality({t \in Threads : pc[t] \in PastIntent /\ args[t].intent = i})

\* C22: the dimension tallies: a tally changes only by a record_request that
\* carries a tag, which raises that tag's count by exactly 1, creates the key
\* when it is not there and changes no other key (so a call without a tag
\* leaves the map as it is and no count goes down); and, until a reset (and
\* with no call that raised), a key exists exactly when a call has carried
\* that tag, with the number of those calls as its count; None and the empty
\* string are no tag and never a key
C22_DimensionTallies ==
    /\ [][TallySteps]_vars
    /\ [](\A k \in requests_by_format.keys \cup requests_by_intent.keys : Truthy(k))
    /\ []((~reset_called /\ returned.raised = 0) =>
            /\ \A f \in Tags(Formats) :
                   /\ f \in requests_by_format.keys <=> CarriedFormat(f) > 0
                   /\ f \in requests_by_format.keys =>
                          requests_by_format.count[f] = CarriedFormat(f)
            /\ \A i \in {x \in Tags(Intents) : Hashable(x)} :
                   /\ i \in requests_by_intent.keys <=> CarriedIntent(i) > 0
                   /\ i \in requests_by_intent.keys =>
                          requests_by_intent.count[i] = CarriedIntent(i))

\* two calls with different formats have returned: each format has its key
\* with the count 1
C22_Witness ==
    /\ AllIdle
    /\ ~reset_called
    /\ requests_by_format.keys = {"Email", "JSON"}
    /\ requests_by_format.count["Email"] = 1
    /\ requests_by_format.count["JSON"] = 1


\* a thread waits for the lock
Waiting(t) == pc[t] \in {"rec_lock", "rst_lock"}

\* C26: progress without deadlock: while a call is in progress some thread
\* inside a call can take a step (no thread waits for a lock that nobody will
\* release, in particular not for one it holds itself), and under fair
\* scheduling and fair lock hand-off every call that has started returns, and
\* when every call has returned the lock is free
C26_Progress ==
    /\ [](\A t \in Threads :
             (~Idle(t) /\ ~(Waiting(t) /\ _lock)) =>
                 (pc[t] \in ComputePoints \/ ENABLED Progress(t)))
    /\ [](_lock => \E t \in Threads : InCritical(t) /\ ENABLED Progress(t))
    /\ [](\A t \in Threads : Waiting(t) => ~InCritical(t))
    /\ [][\A t \in Threads :
              (pc[t] \in ComputePoints /\ pc'[t] # pc[t]) => Computes(t)]_vars
    /\ [](AllIdle => ~_lock)
    /\ \A t \in Threads : ~Idle(t) ~> Idle(t)

\* a thread waits for the lock that the other thread holds
C26_Witness ==
    \E t, u \in Threads : t # u /\ Waiting(t) /\ InCritical(u) /\ _lock


(***************************************************************************)
(* Further properties of the HealthChecker.                                *)
(***************************************************************************)
\* nothing is cached for the entry
Unset(entry) == entry.last_status = None /\ entry.last_value = NoValue

\* a step of run_checks that has invoked the probe at place i
Probed(i) == running /\ i = Len(results.checks) + 1 /\ Len(results'.checks) = i

\* a step of add_check
Adds == health_budget'.add < health_budget.add

\* C23: the cached last_status and last_value of a registered probe are those
\* of its most recent evaluation that returned a value since it was last
\* registered, and unset when there is none: add_check leaves the entry it
\* writes without a cached pair, an evaluation that returns caches its status
\* and its value, one that raises leaves the cached pair as it was, and no
\* other step changes a cached pair
C23_CachedResults ==
    [][/\ Adds =>
            \A j \in 1..Len(checks') :
                (j > Len(checks) \/ checks'[j] # checks[j]) => Unset(checks'[j])
       /\ \A i \in 1..Len(checks) :
              Probed(i) =>
                  /\ \A j \in 1..Len(checks) : j # i => checks'[j] = checks[j]
                  /\ Len(checks') = Len(checks)
                  /\ IF results'.checks[i].status = "error"
                     THEN checks'[i] = checks[i]
                     ELSE /\ checks'[i].last_status = results'.checks[i].status
                          /\ checks'[i].last_value = results'.checks[i].value
                          /\ checks'[i].last_value = outcomes'[i].value
       /\ (~Adds /\ \A i \in 1..Len(checks) : ~Probed(i)) => checks' = checks]_vars

\* a probe that returned a value in one run has raised in the next: the run
\* reports the error, and the cache still holds the pair of the run before
C23_Witness ==
    /\ Returning
    /\ \E i \in 1..Len(checks) :
           /\ results.checks[i].status = "error"
           /\ ~Unset(checks[i])


\* the entries of the registry with the name
Entries(registry, name) == {j \in 1..Len(registry) : registry[j].name = name}

\* the entry that add_check(name, function, threshold) writes
NewEntry(name, function, threshold) ==
    [name |-> name, function |-> function,
     threshold |-> IF threshold.none THEN EmptyMap ELSE threshold.dict,
     last_status |-> None, last_value |-> NoValue]

\* C25: add_check adds or replaces: after add_check(name, function, threshold)
\* the registry has exactly one entry for name, with that function and
\* threshold and nothing cached, and the entries of the other names are as
\* they were; the registry never has two entries of one name, and run_checks
\* reports exactly one result for each registered name
C25_AddOrReplace ==
    /\ [][Adds =>
            \E name \in Names, function \in Functions, threshold \in Thresholds :
                /\ Cardinality(Entries(checks', name)) = 1
                /\ \A j \in Entries(checks', name) :
                       checks'[j] = NewEntry(name, function, threshold)
                /\ \A j \in 1..Len(checks) :
                       checks[j].name # name => checks'[j] = checks[j]
                /\ \A j \in 1..Len(checks') :
                       checks'[j].name # name => j <= Len(checks)]_vars
    /\ [](\A name \in Names : Cardinality(Entries(checks, name)) <= 1)
    /\ [](Returning =>
            /\ Len(results.checks) = Len(checks)
            /\ \A name \in Names :
                   Cardinality(Entries(results.checks, name))
                       = Cardinality(Entries(checks, name)))

\* a probe has been registered again after a run in which every probe returned
\* a value: its entry has nothing cached, the other entry still has its pair
C25_Witness ==
    /\ Returned
    /\ Len(checks) = 2
    /\ Len(results.checks) = 2
    /\ \A i \in 1..2 : results.checks[i].status # "error"
    /\ Unset(checks[1])
    /\ ~Unset(checks[2])


\* the sequence seq in the order p, a permutation of its places
Reordered(seq, p) == [j \in 1..Len(seq) |-> seq[p[j]]]

\* the overall status of a run over the registry in the order p, each probe
\* giving what it gave in the run that is returning
OverallIn(p) ==
    RunChecks(Reordered(checks, p),
              [timestamp |-> results.timestamp, checks |-> <<>>,
               overall_status |-> "healthy"],
              Reordered(outcomes, p)).results.overall_status

\* C28: the fold of run_checks does not depend on the order: with the same
\* probes giving the same values or failures, run_checks returns the same
\* overall status for every order of the registry; and a probe evaluated later
\* never lowers the overall status that the earlier probes have raised
C28_OrderIndependence ==
    /\ [](Returning =>
            \A p \in Permutations(1..Len(checks)) :
                OverallIn(p) = results.overall_status)
    /\ [][\A i \in 1..Len(checks) :
              Probed(i) =>
                  Severity(results'.overall_status) >= Severity(results.overall_status)]_vars

\* a degraded probe, then a healthy one: the run is degraded
C28_Witness ==
    /\ Returning
    /\ Len(checks) = 2
    /\ results.checks[1].status = "degraded"
    /\ results.checks[2].status = "healthy"
    /\ results.overall_status = "degraded"


\* scalar readings from below every bound to above every bound
ScalarReadings == 0..(MaxReading + 1)

\* the warning bound of the policy is not below its max bound
Dominated(threshold) ==
    /\ {"warning", "max"} \subseteq DOMAIN threshold
    /\ threshold.warning >= threshold.max

\* C29: the severity that _evaluate_status gives is monotone in the reading:
\* for every registered threshold policy, with one bound, with both, or with
\* warning at or above max, and all scalars v1 <= v2, the status of v2 is at
\* least as severe as that of v1 (healthy < degraded < unhealthy); and when
\* warning >= max no reading is degraded
C29_SeverityMonotone ==
    \A i \in 1..Len(checks) :
        /\ \A v1, v2 \in ScalarReadings :
               v1 <= v2 =>
                   Severity(EvaluateStatus(Scalar(v1), checks[i].threshold))
                       <= Severity(EvaluateStatus(Scalar(v2), checks[i].threshold))
        /\ Dominated(checks[i].threshold) =>
               \A v \in ScalarReadings :
                   EvaluateStatus(Scalar(v), checks[i].threshold) # "degraded"

\* a probe registered with warning above max has returned a reading between
\* the two bounds, and the run reports it unhealthy
C29_Witness ==
    /\ Returning
    /\ \E i \in 1..Len(checks) :
           /\ Dominated(checks[i].threshold)
           /\ checks[i].threshold.warning > checks[i].threshold.max
           /\ results.checks[i].status = "unhealthy"
           /\ ~results.checks[i].value.dict
           /\ results.checks[i].value.v > checks[i].threshold.max
           /\ results.checks[i].value.v <= checks[i].threshold.warning


(***************************************************************************)
(* The window and the counters.                                            *)
(***************************************************************************)
\* C27: the window agrees with the counter: when every call of record_request
\* and reset has returned, the window of a Recorder of capacity max_history
\* has min(total_requests, max_history) entries, the durations of the last
\* that many requests counted since the latest reset, in their order
C27_WindowAgreesWithTotal ==
    AllIdle =>
        LET n == Min(total_requests, max_history)
        IN  /\ Len(request_times) = n
            /\ Len(appended) = total_requests
            /\ request_times = SubSeq(appended, Len(appended) - n + 1, Len(appended))

\* after a reset, three requests recorded into a window of two
C27_Witness ==
    /\ AllIdle
    /\ reset_called
    /\ max_history = 2
    /\ total_requests = 3
    /\ Len(request_times) = 2


(***************************************************************************)
(* The snapshot of collect_all_metrics.                                    *)
(***************************************************************************)
\* C24: a snapshot is consistent at one point in time: the gauge readings in
\* its 'system' entry are the readings from which its 'health' entry was
\* evaluated (system.cpu is the value reported for the cpu probe, and so for
\* memory and disk)
C24_SnapshotConsistent ==
    "system" \in DOMAIN metrics =>
        /\ metrics.health.checks[1].value = Scalar(metrics.system.cpu)
        /\ metrics.health.checks[2].value = Composite(metrics.system.memory)
        /\ metrics.health.checks[3].value = Composite(metrics.system.disk)

(***************************************************************************)
(* The chunks of split_text_into_chunks                                    *)
(***************************************************************************)
\* the characters of the text that lie in the chunk cut at start a
CoveredFrom(a) == {i \in 1..Len(text) : a < i /\ i <= a + chunk_size}

\* every character of the text is in a chunk: the chunks are cut at 0 and
\* then at every NextStart, up to the start the loop was left with
Covers ==
    \A i \in 1..Len(text) :
        \E a \in 0..Len(text) :
            /\ i \in CoveredFrom(a)
            /\ \E k \in 1..Len(chunks) :
                   chunks[k] = Slice(text, a, a + chunk_size)

\* C30: for every text, every chunk_size >= 1 and every overlap >= 0 the call
\* terminates: each turn of the loop moves start strictly forward, so that
\* there are never more turns than the text has characters; no chunk is
\* longer than chunk_size, and the chunks returned cover every character of
\* the text.
C30_Terminates ==
    /\ [][start' > start]_start
    /\ [](Len(chunks) <= Len(text))
    /\ [](\A k \in 1..Len(chunks) : Len(chunks[k]) <= chunk_size)
    /\ [](split_pc = "returned" => Covers)

====
